---- MODULE Spec2Model ----
(***************************************************************************)
(* File-backed work queue of avito-webhook-hb (server.js and its later     *)
(* revision part_000): tasks are files in TASK_DIR, a lease is the file    *)
(* renamed to *.json.taking, the lease clock is the file's mtime.          *)
(* Every file-system call is one atomic step; handlers interleave at their *)
(* awaits.                                                                 *)
(***************************************************************************)
EXTENDS Integers, Sequences, FiniteSets, TLC

\* ---------------------------------------------------------------- bounds
MaxTasks == 2          \* ids genId may hand out in one run
MaxTicks == 10         \* how far the clock runs, in reaper intervals
MaxLog   == 2          \* webhook dumps kept in the scanned log tail
MaxOver  == 1          \* records queued beyond the candidate window (SpecOrder)
MaxClaims == 2         \* records the lone claimer of SpecOrder takes

\* ------------------------------------------------------ program constants
VISIBILITY_TIMEOUT_MS == 180000
HEARTBEAT_GRACE_MS    == 60000
REAPER_INTERVAL_MS    == 30000

Workers == {"w1", "w2"}
Builds  == {"server", "part000"}
MaxTime == MaxTicks * REAPER_INTERVAL_MS
None    == "none"

\* characters of an account / file name, one per sequence element
HR_MAIN == <<"h", "r", "-", "m", "a", "i", "n">>
SafeChars == {"a", "h", "r", "m", "i", "n", "-", "_"}
SEP == <<"_", "_">>
DEFAULT_REPLY == "Hello"

VARIABLES build, env, now, dir, nextId, log, seenSystemToday, hook, proc,
          reaper, resp, lastCreate, book

vars == <<build, env, now, dir, nextId, log, seenSystemToday, hook, proc,
          reaper, resp, lastCreate, book>>

cfgVars   == <<build, env>>
hookVars  == <<log, seenSystemToday, hook>>

\* ------------------------------------------------------------ file names
\* `${acc}__${id}.json` while Available, `${acc}__${id}.json.taking` while Leased.
\* A name is kept as its three parts; NameStr spells out the characters that
\* startsWith looks at (the id is hex, so it never begins with "_").
HexDigits == <<"1", "2", "3", "4", "5", "6", "7", "8", "9", "a">>

genId(n) == HexDigits[n]

FileName(acc, id, taking) == [acc |-> acc, id |-> id, taking |-> taking]

NameStr(n) == n.acc \o SEP \o <<n.id>> \o (IF n.taking THEN <<".json", ".taking">> ELSE <<".json">>)

startsWith(s, p) == Len(p) <= Len(s) /\ SubSeq(s, 1, Len(p)) = p

toTaking(n) == [n EXCEPT !.taking = TRUE]

toJson(n) == [n EXCEPT !.taking = FALSE]

\* ----------------------------------------------------------- file system
\* dir maps each existing name to [mtime, text]; text is the JSON written.
exists(d, n) == n \in DOMAIN d

\* fsp.writeFile: creates or replaces, mtime = time of the write
writeFile(d, n, text, t) ==
  [m \in DOMAIN d \cup {n} |-> IF m = n THEN [mtime |-> t, text |-> text] ELSE d[m]]

\* a rename that leaves the source in place, as a copy would
renameCopy(d, from, to) ==
  IF exists(d, from)
  THEN [ok |-> TRUE, dir |-> [m \in DOMAIN d \cup {to} |-> IF m = to THEN d[from] ELSE d[m]]]
  ELSE [ok |-> FALSE, dir |-> d]

\* a rename that reports success for a missing source
renameSilent(d, from, to) ==
  IF exists(d, from)
  THEN [ok |-> TRUE,
        dir |-> [m \in (DOMAIN d \ {from}) \cup {to} |-> IF m = to THEN d[from] ELSE d[m]]]
  ELSE [ok |-> TRUE, dir |-> d]

\* fsp.rename: fails when the source is missing; the file keeps its mtime
rename(d, from, to) ==
  IF exists(d, from)
  THEN [ok |-> TRUE,
        dir |-> [m \in (DOMAIN d \ {from}) \cup {to} |-> IF m = to THEN d[from] ELSE d[m]]]
  ELSE [ok |-> FALSE, dir |-> d]

\* an unlink that reports success and leaves the file in place
unlinkKeep(d, n) == [ok |-> TRUE, dir |-> d]

\* fsp.unlink: fails when the file is missing
unlink(d, n) ==
  IF exists(d, n)
  THEN [ok |-> TRUE, dir |-> [m \in DOMAIN d \ {n} |-> d[m]]]
  ELSE [ok |-> FALSE, dir |-> d]

\* a utimes that, like touch, creates the file it does not find
utimesTouch(d, n, t) ==
  IF exists(d, n)
  THEN [ok |-> TRUE, dir |-> [d EXCEPT ![n].mtime = t]]
  ELSE [ok |-> TRUE, dir |-> writeFile(d, n, <<>>, t)]

\* a utimes that rewrites the record with an empty reply_text
utimesRewrite(d, n, t) ==
  IF exists(d, n)
  THEN [ok |-> TRUE,
        dir |-> [d EXCEPT ![n] =
                   [mtime |-> t,
                    text |-> [i \in DOMAIN d[n].text |->
                                IF d[n].text[i][1] = "reply_text"
                                THEN <<"reply_text", "">> ELSE d[n].text[i]]]]]
  ELSE [ok |-> FALSE, dir |-> d]

\* fsp.utimes: fails when the file is missing; sets mtime only
utimes(d, n, t) ==
  IF exists(d, n)
  THEN [ok |-> TRUE, dir |-> [d EXCEPT ![n].mtime = t]]
  ELSE [ok |-> FALSE, dir |-> d]

\* fsp.readdir + filter on the suffix; the directory order is unspecified
Listings(S) == {s \in [1..Cardinality(S) -> S] : \A i, j \in DOMAIN s : i # j => s[i] # s[j]}

readdirJson(d) == Listings({n \in DOMAIN d : ~n.taking})

readdirTaking(d) == Listings({n \in DOMAIN d : n.taking})

\* ------------------------------------------------------------------ JSON
\* JSON.stringify(task, null, 2): the fields in insertion order; JSON.parse
\* reads them back by key.
TaskKeys == <<"id", "account", "chat_id", "reply_text", "message_id", "created_at">>

JSONstringify(task) == [i \in 1..Len(TaskKeys) |-> <<TaskKeys[i], task[TaskKeys[i]]>>]

JSONparse(text) ==
  [k \in {text[i][1] : i \in DOMAIN text} |->
     LET last == CHOOSE i \in DOMAIN text :
                   text[i][1] = k /\ \A j \in DOMAIN text : text[j][1] = k => j <= i
     IN text[last][2]]

\* ------------------------------------------------------------ FILE QUEUE
NULL == "null"
EMPTY == ""

\* (account || 'hr-main').replace(/[^a-zA-Z0-9_-]/g, '_')
sanitize(account) ==
  LET a == IF account = <<>> THEN HR_MAIN ELSE account
  IN [i \in 1..Len(a) |-> IF a[i] \in SafeChars THEN a[i] ELSE "_"]

\* a createTask without the chat_id check
createTaskUnchecked(d, id, t, account, chat_id, reply_text, message_id) ==
  LET acc  == sanitize(account)
      task == [id |-> id,
               account |-> acc,
               chat_id |-> chat_id,
               reply_text |-> IF reply_text = EMPTY THEN DEFAULT_REPLY ELSE reply_text,
               message_id |-> IF message_id = EMPTY THEN NULL ELSE message_id,
               created_at |-> t]
  IN [ok |-> TRUE,
      dir |-> writeFile(d, FileName(acc, id, FALSE), JSONstringify(task), t),
      task |-> task]

\* createTask: the task object and the directory after the write; chat_id
\* falsy throws before anything is written.
createTask(d, id, t, account, chat_id, reply_text, message_id) ==
  IF chat_id = EMPTY
  THEN [ok |-> FALSE, dir |-> d, task |-> NULL]
  ELSE LET acc  == sanitize(account)
           task == [id |-> id,
                    account |-> acc,
                    chat_id |-> chat_id,
                    reply_text |-> IF reply_text = EMPTY THEN DEFAULT_REPLY ELSE reply_text,
                    message_id |-> IF message_id = EMPTY THEN NULL ELSE message_id,
                    created_at |-> t]
       IN [ok |-> TRUE,
           dir |-> writeFile(d, FileName(acc, id, FALSE), JSONstringify(task), t),
           task |-> task]

\* a sort that puts the oldest first
RECURSIVE insertByMtimeAsc(_, _, _)
insertByMtimeAsc(d, sorted, n) ==
  IF sorted = <<>> THEN <<n>>
  ELSE IF d[Head(sorted)].mtime <= d[n].mtime
       THEN <<Head(sorted)>> \o insertByMtimeAsc(d, Tail(sorted), n)
       ELSE <<n>> \o sorted

RECURSIVE sortByMtimeAsc(_, _)
sortByMtimeAsc(d, files) ==
  IF files = <<>> THEN <<>>
  ELSE insertByMtimeAsc(d, sortByMtimeAsc(d, SubSeq(files, 1, Len(files) - 1)), files[Len(files)])

\* files.sort((a, b) => mtime(b) - mtime(a)): stable, newest first
RECURSIVE insertByMtime(_, _, _)
insertByMtime(d, sorted, n) ==
  IF sorted = <<>> THEN <<n>>
  ELSE IF d[Head(sorted)].mtime >= d[n].mtime
       THEN <<Head(sorted)>> \o insertByMtime(d, Tail(sorted), n)
       ELSE <<n>> \o sorted

RECURSIVE sortByMtimeDesc(_, _)
sortByMtimeDesc(d, files) ==
  IF files = <<>> THEN <<>>
  ELSE insertByMtime(d, sortByMtimeDesc(d, SubSeq(files, 1, Len(files) - 1)), files[Len(files)])

\* files.filter(f => f.startsWith(`${account}__`)) when account is non-empty
RECURSIVE filterByAccount(_, _)
filterByAccount(files, account) ==
  IF files = <<>> THEN <<>>
  ELSE (IF account = <<>> \/ startsWith(NameStr(Head(files)), account \o SEP)
        THEN <<Head(files)>> ELSE <<>>) \o filterByAccount(Tail(files), account)

\* files.slice(0, 3) in server.js, files.slice(0, 7) in part_000
CandidateWindow(b) == IF b = "server" THEN 3 ELSE 7

slice(files, k) == SubSeq(files, 1, IF Len(files) < k THEN Len(files) ELSE k)

\* a threshold with the grace counted twice
ThresholdLong == VISIBILITY_TIMEOUT_MS + 2 * HEARTBEAT_GRACE_MS

Threshold == VISIBILITY_TIMEOUT_MS + HEARTBEAT_GRACE_MS

\* the synchronous part of the sweep / reaper loop: from position i on, the
\* first lock that passes the account filter, still exists and is older than
\* the threshold (0 when the loop runs to its end)
RECURSIVE nextStale(_, _, _, _, _)
nextStale(d, locks, i, account, t) ==
  IF i > Len(locks) THEN 0
  ELSE IF /\ (account = <<>> \/ startsWith(NameStr(locks[i]), account \o SEP))
          /\ exists(d, locks[i])
          /\ t - d[locks[i]].mtime > Threshold
       THEN i
       ELSE nextStale(d, locks, i + 1, account, t)

\* ------------------------------------------------------------- processes
\* One in-flight request per worker; pc is the await its handler is parked
\* on. held is the lock id the worker got from its last claim.
IdleProc == [pc |-> "idle", account |-> <<>>, files |-> <<>>, i |-> 0, snow |-> 0,
             chat |-> EMPTY, held |-> <<>>]

IdleReaper == [pc |-> "idle", locks |-> <<>>, i |-> 0, rnow |-> 0]

NoBook == [winners |-> {}, losers |-> {}, returned |-> {}, owner |-> None, since |-> 0,
           beat |-> 0, acked |-> "no", gone |-> FALSE]

Ids == {genId(n) : n \in 1..MaxTasks}

\* process.env: ONLY_FIRST_SYSTEM defaults to true, WEBHOOK_SECRET to ''
DefaultEnv == [ONLY_FIRST_SYSTEM |-> TRUE, WEBHOOK_SECRET |-> EMPTY]

Envs == [ONLY_FIRST_SYSTEM : BOOLEAN, WEBHOOK_SECRET : {EMPTY, "s3cret"}]

\* no webhook request is being handled
IdleHook == [pc |-> "idle"]

\* the state after start-up, for a build and an environment
StartedWith(builds, envs, ids) ==
  /\ build \in builds
  /\ env \in envs
  /\ now = 0
  /\ dir = <<>>
  /\ nextId = 1
  /\ log = <<>>
  /\ seenSystemToday = {}
  /\ hook = IdleHook
  /\ proc = [w \in Workers |-> IdleProc]
  /\ reaper = IdleReaper
  /\ resp = [op |-> "none"]
  /\ lastCreate = [ok |-> FALSE]
  /\ book = [id \in ids |-> NoBook]

Started(builds, envs) == StartedWith(builds, envs, Ids)

\* bookkeeping for the properties (not program state), per Task id: who won
\* and who lost the claim rename since the record last became Available,
\* whom claim returned it to, and the claim the current lease belongs to
Won(id, w) ==
  book' = [book EXCEPT ![id].winners = @ \cup {w}, ![id].owner = w, ![id].since = now,
                       ![id].beat = now]

Lost(id, w) == book' = [book EXCEPT ![id].losers = @ \cup {w}]

\* (a claimer whose win dates from before the last revert is not counted
\* against the record's present time as Available)
Returned(id, w) ==
  book' = [book EXCEPT ![id].returned = IF w \in book[id].winners THEN @ \cup {w} ELSE @]

\* the record is Available again: a new round of claiming starts
Reverted(id) ==
  book' = [book EXCEPT ![id] = [NoBook EXCEPT !.acked = book[id].acked, !.gone = book[id].gone]]

\* doneSafe ran its unlink; hit tells whether the Leased record was there
Deleted(id, hit) ==
  book' = [book EXCEPT ![id].owner = IF hit THEN None ELSE @,
                       ![id].since = IF hit THEN 0 ELSE @,
                       ![id].beat = IF hit THEN 0 ELSE @,
                       ![id].gone = @ \/ hit]

\* done was acknowledged; hit tells whether the Leased record was there
DoneAcked(id, hit) ==
  book' = [book EXCEPT ![id].owner = IF hit THEN None ELSE @,
                       ![id].since = IF hit THEN 0 ELSE @,
                       ![id].beat = IF hit THEN 0 ELSE @,
                       ![id].gone = @ \/ hit,
                       ![id].acked = IF hit THEN "hit" ELSE "miss"]

\* the holder's own heartbeat went through
Beat(id, w) == book' = [book EXCEPT ![id].beat = IF book[id].owner = w THEN now ELSE @]

\* the clock moves on by d ms
Advance(d) ==
  /\ now + d <= MaxTime
  /\ now' = now + d
  /\ UNCHANGED <<cfgVars, hookVars, book, dir, nextId, proc, reaper, resp, lastCreate>>

\* POST /tasks/enqueue
Enqueue(limit, accounts, chats, replies, msgs) ==
  \E account \in accounts, chat_id \in chats, reply_text \in replies, message_id \in msgs :
    /\ nextId <= limit
    /\ LET r == createTask(dir, genId(nextId), now, account, chat_id, reply_text, message_id)
       IN /\ dir' = r.dir
          /\ nextId' = IF r.ok THEN nextId + 1 ELSE nextId
          /\ resp' = [op |-> "enqueue", status |-> IF r.ok THEN 200 ELSE 400]
          /\ lastCreate' = [ok |-> r.ok, account |-> account, task |-> r.task]
    /\ UNCHANGED <<cfgVars, hookVars, book, now, proc, reaper>>

\* ---- claimTask, one step per await -------------------------------------
\* /tasks/claim -> claimTask: readdir of the *.json files
ClaimList(w, accounts, listings) ==
  \E account \in accounts, files \in listings :
    /\ proc[w].pc = "idle"
    /\ proc' = [proc EXCEPT ![w] = [IdleProc EXCEPT !.pc = "c_sort", !.account = account,
                                                    !.files = files]]
    /\ UNCHANGED <<cfgVars, hookVars, book, now, dir, nextId, reaper, resp, lastCreate>>

ClaimStart(w, accounts) == ClaimList(w, accounts, readdirJson(dir))

\* where the for-loop over the candidates goes after position i
AfterCandidate(p, i) ==
  IF i < Len(p.files) THEN [p EXCEPT !.pc = "c_rename", !.i = i + 1]
  ELSE [p EXCEPT !.pc = "c_sweepdir", !.i = 0, !.files = <<>>]

\* the sort's statSync throws when a listed file is gone (two files or more:
\* the comparator runs); the rejection leaves the request unanswered
ClaimSort(w) ==
  /\ proc[w].pc = "c_sort"
  /\ LET p == proc[w]
         gone == Len(p.files) >= 2 /\ \E i \in DOMAIN p.files : ~exists(dir, p.files[i])
     IN IF gone
        THEN /\ proc' = [proc EXCEPT ![w] = IdleProc]
             /\ resp' = [op |-> "claim", to |-> w, status |-> -1]
        ELSE /\ proc' = [proc EXCEPT ![w] = AfterCandidate(
                  [p EXCEPT !.files = slice(filterByAccount(sortByMtimeDesc(dir, p.files),
                                                            p.account),
                                            CandidateWindow(build))], 0)]
             /\ UNCHANGED resp
  /\ UNCHANGED <<cfgVars, hookVars, book, now, dir, nextId, reaper, lastCreate>>

\* fsp.rename(full, taking): the atomic lock
ClaimRename(w) ==
  /\ proc[w].pc = "c_rename"
  /\ LET p == proc[w]
         f == p.files[p.i]
         r == rename(dir, f, toTaking(f))
     IN /\ dir' = r.dir
        /\ IF r.ok
           THEN /\ proc' = [proc EXCEPT ![w].pc = "c_read"]
                /\ Won(f.id, w)
           ELSE /\ proc' = [proc EXCEPT ![w] = AfterCandidate(p, p.i)]
                /\ Lost(f.id, w)
  /\ UNCHANGED <<cfgVars, hookVars, now, nextId, reaper, resp, lastCreate>>

\* the answer of /tasks/claim for what claimTask returned
claimAnswer(w, task, lockId) ==
  [op |-> "claim", to |-> w, status |-> 200, has |-> TRUE, task |-> task,
   lockId |-> lockId,
   ChatId |-> task.chat_id,
   ReplyText |-> task.reply_text,
   MessageId |-> IF task.message_id = NULL THEN EMPTY ELSE task.message_id,
   Account |-> task.account]

\* JSON.parse(readFile(taking)) and the answer; a failed read falls into the
\* catch and the loop goes on
ClaimRead(w) ==
  /\ proc[w].pc = "c_read"
  /\ LET p == proc[w]
         lock == toTaking(p.files[p.i])
     IN IF exists(dir, lock)
        THEN /\ proc' = [proc EXCEPT ![w] = [IdleProc EXCEPT !.held = <<lock>>]]
             /\ resp' = claimAnswer(w, JSONparse(dir[lock].text), lock)
             /\ Returned(lock.id, w)
        ELSE /\ proc' = [proc EXCEPT ![w] = AfterCandidate(p, p.i)]
             /\ UNCHANGED <<resp, book>>
  /\ UNCHANGED <<cfgVars, hookVars, now, dir, nextId, reaper, lastCreate>>

\* sweep: readdir of the *.json.taking files
SweepReaddir(w) ==
  /\ proc[w].pc = "c_sweepdir"
  /\ \E locks \in readdirTaking(dir) :
       proc' = [proc EXCEPT ![w].pc = "c_scan", ![w].files = locks, ![w].i = 0]
  /\ UNCHANGED <<cfgVars, hookVars, book, now, dir, nextId, reaper, resp, lastCreate>>

\* sweep: now = Date.now() on the first pass, then statSync of the locks up
\* to the first stale one; return null when the loop ends
SweepScan(w) ==
  /\ proc[w].pc = "c_scan"
  /\ LET p == proc[w]
         t == IF p.i = 0 THEN now ELSE p.snow
         j == nextStale(dir, p.files, IF p.i = 0 THEN 1 ELSE p.i, p.account, t)
     IN IF j = 0
        THEN /\ proc' = [proc EXCEPT ![w] = IdleProc]
             /\ resp' = [op |-> "claim", to |-> w, status |-> 200, has |-> FALSE]
        ELSE /\ proc' = [proc EXCEPT ![w] = [p EXCEPT !.pc = "c_revert", !.i = j, !.snow = t]]
             /\ UNCHANGED resp
  /\ UNCHANGED <<cfgVars, hookVars, book, now, dir, nextId, reaper, lastCreate>>

\* sweep: fsp.rename(full, back), failure swallowed, then the log line
SweepRevert(w) ==
  /\ proc[w].pc = "c_revert"
  /\ LET p == proc[w]
         lf == p.files[p.i]
         r == rename(dir, lf, toJson(lf))
     IN /\ dir' = r.dir
        /\ IF r.ok THEN Reverted(lf.id) ELSE UNCHANGED book
        /\ proc' = [proc EXCEPT ![w].pc = "c_scan", ![w].i = p.i + 1]
  /\ UNCHANGED <<cfgVars, hookVars, now, nextId, reaper, resp, lastCreate>>

\* ---- operations on a lock id -------------------------------------------
\* a doneTask that lets the failure of its unlink through
doneTaskStrict(d, lockId) == unlink(d, lockId)

\* a doneTask that also removes the Available record of the lock id
doneTaskBoth(d, lockId) ==
  [ok |-> TRUE, dir |-> unlink(unlink(d, lockId).dir, toJson(lockId)).dir]

\* doneTask: unlink, failure swallowed, always true
doneTask(d, lockId) == [ok |-> TRUE, dir |-> unlink(d, lockId).dir]

\* a requeueTask that deletes the lock instead of renaming it back
requeueTaskDrop(d, lockId) == [ok |-> TRUE, dir |-> unlink(d, lockId).dir]

\* requeueTask: rename back to *.json, failure swallowed, always true
requeueTask(d, lockId) == [ok |-> TRUE, dir |-> rename(d, lockId, toJson(lockId)).dir]

HasLock(w) == proc[w].pc = "idle" /\ proc[w].held # <<>>

LockOf(w) == proc[w].held[1]

\* POST /tasks/done
Done(w) ==
  /\ HasLock(w)
  /\ LET r == doneTask(dir, LockOf(w))
     IN /\ dir' = r.dir
        /\ resp' = [op |-> "done", to |-> w, status |-> IF r.ok THEN 200 ELSE -1]
        /\ IF r.ok THEN DoneAcked(LockOf(w).id, exists(dir, LockOf(w))) ELSE UNCHANGED book
  /\ UNCHANGED <<cfgVars, hookVars, now, nextId, proc, reaper, lastCreate>>

\* POST /tasks/requeue
Requeue(w) ==
  /\ HasLock(w)
  /\ LET r == requeueTask(dir, LockOf(w))
     IN /\ dir' = r.dir
        /\ resp' = [op |-> "requeue", to |-> w, status |-> IF r.ok THEN 200 ELSE -1]
        /\ IF exists(dir, LockOf(w)) /\ ~exists(r.dir, LockOf(w))
           THEN Reverted(LockOf(w).id) ELSE UNCHANGED book
  /\ UNCHANGED <<cfgVars, hookVars, now, nextId, proc, reaper, lastCreate>>

\* POST /tasks/heartbeat with a lock name: utimes(full, now, now), 404 when
\* it throws
HeartbeatLock(w, lock) ==
  /\ LET r == utimes(dir, lock, now)
     IN /\ dir' = r.dir
        /\ resp' = [op |-> "heartbeat", to |-> w, status |-> IF r.ok THEN 200 ELSE 404]
        /\ IF r.ok THEN Beat(lock.id, w) ELSE UNCHANGED book
  /\ UNCHANGED <<cfgVars, hookVars, now, nextId, proc, reaper, lastCreate>>

\* the heartbeat of a worker for the lock id its claim returned
Heartbeat(w) ==
  /\ HasLock(w)
  /\ HeartbeatLock(w, LockOf(w))

\* ---- Confirmation Oracle -----------------------------------------------
\* log is the tail the scan reads: the webhook dumps, oldest first. The scan
\* takes the leftmost place where "chat_id": "<chat>" is followed by
\* "type": "text" and "author_id": <digits>, and asks whether those digits
\* are a positive number.
Matches(l, chat) == {i \in DOMAIN l : l[i].chat_id = chat /\ l[i].type = "text"}

\* the characters of the chat ids in play
ChatChars(chat) ==
  CASE chat = "c1"  -> <<"c", "1">>
    [] chat = "c2"  -> <<"c", "2">>
    [] chat = "c(1" -> <<"c", "(", "1">>
    [] OTHER        -> <<>>

\* depth of open groups after reading the characters, -1 once a ")" closes
\* nothing
RECURSIVE groupDepth(_, _)
groupDepth(chars, depth) ==
  IF depth < 0 \/ chars = <<>> THEN depth
  ELSE groupDepth(Tail(chars), CASE Head(chars) = "(" -> depth + 1
                                 [] Head(chars) = ")" -> depth - 1
                                 [] OTHER -> depth)

\* new RegExp(`"chat_id"\s*:\s*"${chat}"...(\d+)`) throws a SyntaxError when
\* the chat id leaves a group open or closes one it did not open
RegExpThrows(chat) == groupDepth(ChatChars(chat), 0) # 0

\* t.text.includes(`"chat_id": "${chat}"`)
includesChat(l, chat) == \E i \in DOMAIN l : l[i].chat_id = chat

confirmedInLogs(l, chat) ==
  /\ Matches(l, chat) # {}
  /\ LET first == CHOOSE i \in Matches(l, chat) : \A j \in Matches(l, chat) : i <= j
     IN l[first].author_id > 0

\* readTaking(lock).chat_id, '' when the read throws
chatOfLock(d, lockId) == IF exists(d, lockId) THEN JSONparse(d[lockId].text).chat_id ELSE EMPTY

\* POST /tasks/doneSafe: readTaking; 428 when no chat_id comes out of the lock
DoneSafeRead(w) ==
  /\ HasLock(w)
  /\ LET chat == chatOfLock(dir, LockOf(w))
     IN IF chat = EMPTY
        THEN /\ resp' = [op |-> "doneSafe", to |-> w, status |-> 428,
                         error |-> "no chat_id in lock"]
             /\ UNCHANGED proc
        ELSE /\ proc' = [proc EXCEPT ![w].pc = "ds_scan", ![w].chat = chat]
             /\ UNCHANGED resp
  /\ UNCHANGED <<cfgVars, hookVars, book, now, dir, nextId, reaper, lastCreate>>

\* doneSafe: readLastLogTails and the scan; 428 when nothing confirms. The
\* handler has no try around the scan: a throwing RegExp rejects it and the
\* request stays unanswered
DoneSafeScan(w) ==
  /\ proc[w].pc = "ds_scan"
  /\ IF includesChat(log, proc[w].chat) /\ RegExpThrows(proc[w].chat)
     THEN /\ proc' = [proc EXCEPT ![w].pc = "idle", ![w].chat = EMPTY]
          /\ resp' = [op |-> "doneSafe", to |-> w, status |-> -1]
     ELSE IF confirmedInLogs(log, proc[w].chat)
     THEN /\ proc' = [proc EXCEPT ![w].pc = "ds_unlink"]
          /\ UNCHANGED resp
     ELSE /\ proc' = [proc EXCEPT ![w].pc = "idle", ![w].chat = EMPTY]
          /\ resp' = [op |-> "doneSafe", to |-> w, status |-> 428,
                      error |-> "not confirmed in logs"]
  /\ UNCHANGED <<cfgVars, hookVars, book, now, dir, nextId, reaper, lastCreate>>

\* doneSafe: doneTask(lock), then 204
DoneSafeUnlink(w) ==
  /\ proc[w].pc = "ds_unlink"
  /\ LET r == doneTask(dir, LockOf(w))
     IN /\ dir' = r.dir
        /\ proc' = [proc EXCEPT ![w].pc = "idle", ![w].chat = EMPTY]
        /\ resp' = [op |-> "doneSafe", to |-> w, status |-> 204]
        /\ Deleted(LockOf(w).id, exists(dir, LockOf(w)))
  /\ UNCHANGED <<cfgVars, hookVars, now, nextId, reaper, lastCreate>>

\* ---- REAPER --------------------------------------------------------------
\* the interval fires: readdir of the *.json.taking files
ReaperTick ==
  /\ reaper.pc = "idle"
  /\ \E locks \in readdirTaking(dir) :
       reaper' = [pc |-> "scan", locks |-> locks, i |-> 0, rnow |-> 0]
  /\ UNCHANGED <<cfgVars, hookVars, book, now, dir, nextId, proc, resp, lastCreate>>

\* now = Date.now() on the first pass, then statSync up to the first stale lock
ReaperScan ==
  /\ reaper.pc = "scan"
  /\ LET t == IF reaper.i = 0 THEN now ELSE reaper.rnow
         j == nextStale(dir, reaper.locks, IF reaper.i = 0 THEN 1 ELSE reaper.i, <<>>, t)
     IN reaper' = IF j = 0 THEN IdleReaper
                  ELSE [reaper EXCEPT !.pc = "revert", !.i = j, !.rnow = t]
  /\ UNCHANGED <<cfgVars, hookVars, book, now, dir, nextId, proc, resp, lastCreate>>

\* fsp.rename(full, back), failure swallowed, then the log line
ReaperRevert ==
  /\ reaper.pc = "revert"
  /\ LET f == reaper.locks[reaper.i]
         r == rename(dir, f, toJson(f))
     IN /\ dir' = r.dir
        /\ IF r.ok THEN Reverted(f.id) ELSE UNCHANGED book
        /\ reaper' = [reaper EXCEPT !.pc = "scan", !.i = reaper.i + 1]
  /\ UNCHANGED <<cfgVars, hookVars, now, nextId, proc, resp, lastCreate>>

\* ---- WEBHOOK -------------------------------------------------------------
\* text is the message text word by word
CandidateWords == {"kandidat", "otklik", "otkliknulsya"}

\* server.js: /kandidat|otklik|otkliknulsya/i   part_000: /kandidat.*otkliknulsya/i
looksLikeCandidateText(b, txt) ==
  IF b = "server"
  THEN \E i \in DOMAIN txt : txt[i] \in CandidateWords
  ELSE \E i, j \in DOMAIN txt : i < j /\ txt[i] = "kandidat" /\ txt[j] = "otkliknulsya"

\* the soft secret check: the secret matches or a signature header is present
secretPass(e, ev) ==
  \/ e.WEBHOOK_SECRET = EMPTY
  \/ (ev.secret # EMPTY /\ ev.secret = e.WEBHOOK_SECRET)
  \/ ev.signature # EMPTY

isJobFlow(ev) == ev.type = "system" /\ ev.flow_id = "job"

\* which events ask for a task: server.js wants a system event whose text
\* matches; part_000 wants the job flow of a system event or a matching text
wantsTask(b, ev) ==
  IF b = "server"
  THEN ev.type = "system" /\ looksLikeCandidateText(b, ev.text) /\ ev.chat_id # EMPTY
  ELSE ev.chat_id # EMPTY /\ (isJobFlow(ev) \/ looksLikeCandidateText(b, ev.text))

\* a handler that never consults the dedup set
dedupedOff(b, e, ev) == FALSE

\* the events the dedup set is consulted for
deduped(b, e, ev) ==
  IF b = "server" THEN e.ONLY_FIRST_SYSTEM
  ELSE ~isJobFlow(ev) /\ e.ONLY_FIRST_SYSTEM

seenKey(account, chatId) == account \o <<":", chatId>>

\* an appendLog that writes nothing
appendLogDrop(l, entry) == l

\* appendLog of the dump; the scanned tail keeps the last MaxLog dumps
appendLog(l, entry) ==
  LET all == Append(l, entry)
  IN IF Len(all) > MaxLog THEN SubSeq(all, Len(all) - MaxLog + 1, Len(all)) ELSE all

\* the outcomes of the handler's two writes: the append of the dump to the
\* log file and createTask's writeFile; either may throw (disk, permissions)
AllOk == [log |-> TRUE, write |-> TRUE]

IOs == [log : BOOLEAN, write : BOOLEAN]

\* a handler that lets a failed write through to the caller
hookStatusLeaky(pass, io) ==
  IF ~pass THEN 403 ELSE IF io.log /\ io.write THEN 200 ELSE 500

\* the status the handler answers with: 403 from the secret check, else
\* ok(res); both writes sit in try/catch
hookStatus(pass, io) == IF pass THEN 200 ELSE 403

\* POST /webhook/:account for one request and one outcome of its writes
WebhookStep(limit, account, ev, io) ==
  LET key     == seenKey(account, ev.chat_id)
      pass    == secretPass(env, ev)
      wants   == pass /\ wantsTask(build, ev)
      dedup   == wants /\ deduped(build, env, ev)
      allowed == wants /\ ~(dedup /\ key \in seenSystemToday)
      r       == createTask(dir, genId(nextId), now, account, ev.chat_id, DEFAULT_REPLY, ev.id)
      created == allowed /\ io.write /\ r.ok
  IN /\ allowed => nextId <= limit
     /\ log' = IF io.log THEN appendLog(log, [account |-> account] @@ ev) ELSE log
     /\ seenSystemToday' = IF dedup THEN seenSystemToday \cup {key} ELSE seenSystemToday
     /\ dir' = IF created THEN r.dir ELSE dir
     /\ nextId' = IF created THEN nextId + 1 ELSE nextId
     /\ resp' = [op |-> "webhook", status |-> hookStatus(pass, io)]
     /\ UNCHANGED <<cfgVars, hook, book, now, proc, reaper, lastCreate>>

\* POST /webhook/:account, with the outcome of its writes drawn from ios
WebhookIO(limit, accounts, events, ios) ==
  \E account \in accounts, ev \in events, io \in ios : WebhookStep(limit, account, ev, io)

\* POST /webhook/:account when its writes go through
Webhook(limit, accounts, events) == WebhookIO(limit, accounts, events, {AllOk})

\* ------------------------------------------------------------------- Spec
\* the steps of one claim call, and what a worker may do with its lock id
Claim(w, accounts) ==
  \/ ClaimStart(w, accounts)
  \/ ClaimSort(w)
  \/ ClaimRename(w)
  \/ ClaimRead(w)
  \/ SweepReaddir(w)
  \/ SweepScan(w)
  \/ SweepRevert(w)

Reaper == ReaperTick \/ ReaperScan \/ ReaperRevert

Expire == Advance(Threshold + REAPER_INTERVAL_MS)

Init == Started(Builds, {DefaultEnv})

\* Spec: claimers racing for the Available records; records come back by
\* requeue and by the sweep once the clock has jumped past the threshold.
\* With at most MaxTasks files the two builds' candidate windows take the
\* whole listing, so one build stands for both here.
InitRace == Started({"part000"}, {DefaultEnv})

Next ==
  \/ Expire
  \/ Enqueue(MaxTasks, {<<"a">>}, {"c1"}, {EMPTY}, {EMPTY})
  \/ \E w \in Workers : Claim(w, {<<"a">>}) \/ Requeue(w)

Spec == InitRace /\ [][Next]_vars

\* SpecLease: one Task, two workers with every operation on the lock id,
\* the reaper, and the clock jumping past the threshold
NextLease ==
  \/ Expire
  \/ Enqueue(1, {<<"a">>}, {"c1"}, {EMPTY}, {EMPTY})
  \/ \E w \in Workers : Claim(w, {<<"a">>}) \/ Done(w) \/ Requeue(w) \/ Heartbeat(w)
  \/ Reaper

SpecLease == Init /\ [][NextLease]_vars

\* SpecExpiry: one Task, the clock in steps of the reaper interval, one
\* worker that claims and heartbeats whenever it likes, and the reaper
NextExpiry ==
  \/ Advance(REAPER_INTERVAL_MS)
  \/ Enqueue(1, {<<"a">>}, {"c1"}, {EMPTY}, {EMPTY})
  \/ \E w \in {"w1"} : Claim(w, {<<"a">>}) \/ Heartbeat(w)
  \/ Reaper

SpecExpiry == Init /\ [][NextExpiry]_vars

\* SpecBeat: as SpecExpiry, but whoever holds a lease heartbeats every half
\* visibility timeout, counted from its claim: the clock does not pass a
\* heartbeat that is due
HalfTimeout == VISIBILITY_TIMEOUT_MS \div 2

BeatDue(id) == book[id].beat + HalfTimeout

HeartbeatOnTime(w) ==
  /\ HasLock(w)
  /\ book[LockOf(w).id].owner = w
  /\ now = BeatDue(LockOf(w).id)
  /\ Heartbeat(w)

AdvanceOnTime ==
  /\ \A id \in Ids : book[id].owner # None => now + REAPER_INTERVAL_MS <= BeatDue(id)
  /\ Advance(REAPER_INTERVAL_MS)

NextBeat ==
  \/ AdvanceOnTime
  \/ Enqueue(1, {<<"a">>}, {"c1"}, {EMPTY}, {EMPTY})
  \/ \E w \in Workers : Claim(w, {<<"a">>}) \/ HeartbeatOnTime(w)
  \/ Reaper

SpecBeat == Init /\ [][NextBeat]_vars

\* a claim call while no lock is stale: the sweep reverts nothing
ClaimQuiet(w, accounts) ==
  \/ ClaimStart(w, accounts)
  \/ ClaimSort(w)
  \/ ClaimRename(w)
  \/ ClaimRead(w)
  \/ SweepReaddir(w)
  \/ SweepScan(w)

\* SpecRoundTrip: a create into the empty queue, then one claim with the
\* account value the create was given, then done to empty the queue again
RawAccounts == {<<>>, <<"a">>, <<"a", ".">>}

EnqueueAlone ==
  /\ DOMAIN dir = {}
  /\ Enqueue(MaxTasks, RawAccounts, {EMPTY, "c1"}, {EMPTY, "hi"}, {EMPTY, "m1"})

ClaimAfterCreate(w) ==
  /\ resp.op = "enqueue"
  /\ resp.status = 200
  /\ ClaimStart(w, {lastCreate.account})

NextRoundTrip ==
  \/ EnqueueAlone
  \/ ClaimAfterCreate("w1")
  \/ ClaimSort("w1")
  \/ ClaimRename("w1")
  \/ ClaimRead("w1")
  \/ SweepReaddir("w1")
  \/ SweepScan("w1")
  \/ Done("w1")

SpecRoundTrip == Init /\ [][NextRoundTrip]_vars

\* SpecDone: one Task, two workers that claim, heartbeat and call done, the
\* reaper, and the clock jumping past the threshold
NextDone ==
  \/ Expire
  \/ Enqueue(1, {<<"a">>}, {"c1"}, {EMPTY}, {EMPTY})
  \/ \E w \in Workers : Claim(w, {<<"a">>}) \/ Done(w) \/ Heartbeat(w)
  \/ Reaper

SpecDone == Init /\ [][NextDone]_vars

\* an inbound event, as far as the handler reads it
Event(type, text, flow_id, chat_id, author_id, secret, signature) ==
  [type |-> type, text |-> text, flow_id |-> flow_id, chat_id |-> chat_id, id |-> "m1",
   author_id |-> author_id, secret |-> secret, signature |-> signature]

\* SpecSafe: one Task, workers that claim, requeue and call doneSafe, while
\* messages of the chats arrive at the webhook and fill the log
SafeEvents ==
  {Event(t[1], <<>>, EMPTY, t[2], t[3], EMPTY, EMPTY) :
     t \in {<<"text", "c1", 0>>, <<"text", "c1", 5>>, <<"system", "c1", 5>>,
            <<"text", "c2", 5>>, <<"text", "c(1", 5>>}}

NextSafe ==
  \/ Enqueue(1, {<<"a">>}, {"c1", "c(1"}, {EMPTY}, {EMPTY})
  \/ Webhook(1, {<<"a">>}, SafeEvents)
  \/ \E w \in Workers :
       \/ ClaimQuiet(w, {<<"a">>})
       \/ Requeue(w)
       \/ DoneSafeRead(w)
       \/ DoneSafeScan(w)
       \/ DoneSafeUnlink(w)

SpecSafe == Init /\ [][NextSafe]_vars

\* SpecWebhook: every build under every environment, fed system, job-flow
\* and text events with and without credentials
Candidate == <<"kandidat", "otkliknulsya">>

Credentials == {<<EMPTY, EMPTY>>, <<"s3cret", EMPTY>>, <<EMPTY, "sig">>}

HookEvents ==
  {Event(t[1], t[2], t[3], t[4], 0, c[1], c[2]) :
     t \in {<<"system", <<>>, "job", "c1">>,
            <<"system", Candidate, "job", "c1">>,
            <<"system", Candidate, EMPTY, "c1">>,
            <<"text", <<"otklik">>, EMPTY, "c1">>,
            <<"system", <<>>, "job", EMPTY>>},
     c \in Credentials}

HookAccounts == {<<"a">>}

InitWebhook == Started(Builds, Envs)

NextWebhook == Webhook(MaxTasks, HookAccounts, HookEvents)

SpecWebhook == InitWebhook /\ [][NextWebhook]_vars

\* SpecDedup: both builds with the dedup flag on and off and no secret, fed
\* text-matched events (message id "m1") and job-flow events (message id
\* "j1") of two accounts; either write of the handler may fail
DedupAccounts == {<<"a">>, <<"b">>}

DedupChats == {"c1"}

DedupEvents ==
  {Event(t, Candidate, EMPTY, c, 0, EMPTY, EMPTY) : t \in {"system", "text"}, c \in DedupChats}
  \cup {[Event("system", Candidate, "job", c, 0, EMPTY, EMPTY) EXCEPT !.id = "j1"] :
          c \in DedupChats}

InitDedup == Started(Builds, {e \in Envs : e.WEBHOOK_SECRET = EMPTY})

NextDedup == WebhookIO(MaxTasks, DedupAccounts, DedupEvents, IOs)

SpecDedup == InitDedup /\ [][NextDedup]_vars

\* SpecTouch: as SpecLease, and heartbeats for lock names no claim returned
LockNames == {FileName(<<"a">>, id, TRUE) : id \in Ids}

HeartbeatUnclaimed(w) ==
  /\ proc[w].pc = "idle"
  /\ proc[w].held = <<>>
  /\ \E lock \in LockNames : HeartbeatLock(w, lock)

NextTouch ==
  \/ NextLease
  \/ \E w \in Workers : HeartbeatUnclaimed(w)

SpecTouch == Init /\ [][NextTouch]_vars

\* SpecChat: creates through enqueue and through the webhook, with and
\* without a chat_id, and one worker that claims, requeues and calls done
ChatEvents ==
  {Event("system", Candidate, "job", c, 0, EMPTY, EMPTY) : c \in {EMPTY, "c1"}}

EnqueueNoChat == Enqueue(MaxTasks, {<<"a">>}, {EMPTY}, {EMPTY}, {EMPTY})

NextChat ==
  \/ EnqueueNoChat
  \/ Enqueue(MaxTasks, {<<"a">>}, {"c1"}, {EMPTY}, {EMPTY})
  \/ Webhook(MaxTasks, {<<"a">>}, ChatEvents)
  \/ \E w \in {"w1"} : ClaimQuiet(w, {<<"a">>}) \/ Requeue(w) \/ Done(w)

SpecChat == Init /\ [][NextChat]_vars

\* SpecLatency: the reaper on its interval. The clock moves in half
\* intervals and only while the reaper is idle (a tick's work takes no clock
\* time); every second move fires the interval callback, whose readdir is
\* part of the move. One worker claims, heartbeats and requeues at will.
HalfInterval == REAPER_INTERVAL_MS \div 2

TickDue(t) == t % REAPER_INTERVAL_MS = 0

ClockStep ==
  /\ reaper.pc = "idle"
  /\ ~TickDue(now + HalfInterval)
  /\ Advance(HalfInterval)

ReaperTickOnTime ==
  /\ reaper.pc = "idle"
  /\ TickDue(now + HalfInterval)
  /\ now + HalfInterval <= MaxTime
  /\ now' = now + HalfInterval
  /\ \E locks \in readdirTaking(dir) :
       reaper' = [pc |-> "scan", locks |-> locks, i |-> 0, rnow |-> 0]
  /\ UNCHANGED <<cfgVars, hookVars, book, dir, nextId, proc, resp, lastCreate>>

NextLatency ==
  \/ ClockStep
  \/ ReaperTickOnTime
  \/ ReaperScan
  \/ ReaperRevert
  \/ Enqueue(1, {<<"a">>}, {"c1"}, {EMPTY}, {EMPTY})
  \/ \E w \in {"w1"} : Claim(w, {<<"a">>}) \/ Heartbeat(w) \/ Requeue(w)

SpecLatency == Init /\ [][NextLatency]_vars

\* an outgoing text message of the chat, as doneSafe looks for it
ConfirmEvents == {Event("text", <<>>, EMPTY, "c1", 5, EMPTY, EMPTY)}

\* SpecLife: one Task under every operation of the queue: two workers that
\* claim, heartbeat, requeue and call done and doneSafe, the claim-time sweep,
\* the reaper, the clock jumping past the threshold, and a confirming message
\* arriving at the webhook. The builds differ in the candidate window and the
\* webhook's classification only, so one build stands for both here.
DoneSafe(w) == DoneSafeRead(w) \/ DoneSafeScan(w) \/ DoneSafeUnlink(w)

NextLife ==
  \/ NextLease
  \/ Webhook(1, {<<"a">>}, ConfirmEvents)
  \/ \E w \in Workers : DoneSafe(w)

SpecLife == InitRace /\ [][NextLife]_vars

\* SpecOrder: a queue filled beyond the candidate window of the build with
\* records of two accounts (every second record is of account "a"), written
\* at up to three times (no lock grows stale), and then one claimer that claims until it holds MaxClaims
\* records, with and without an account. The readdir hands the names out in
\* creation order or in the reverse of it.
QueueLimit(b) == CandidateWindow(b) + MaxOver

QueueIds == {genId(n) : n \in 1..(CandidateWindow("part000") + MaxOver)}

IdIndex(id) == CHOOSE i \in DOMAIN HexDigits : HexDigits[i] = id

RECURSIVE inCreationOrder(_)
inCreationOrder(S) ==
  IF S = {} THEN <<>>
  ELSE LET n == CHOOSE x \in S : \A y \in S : IdIndex(x.id) <= IdIndex(y.id)
       IN <<n>> \o inCreationOrder(S \ {n})

Reverse(s) == [i \in DOMAIN s |-> s[Len(s) + 1 - i]]

TwoListings(d) ==
  LET l == inCreationOrder({n \in DOMAIN d : ~n.taking}) IN {l, Reverse(l)}

Filling == nextId <= QueueLimit(build)

OrderAccounts == IF nextId % 2 = 1 THEN {<<"a">>, <<"b">>} ELSE {<<"a">>}

Taken == Cardinality({n \in DOMAIN dir : n.taking})

InitOrder == StartedWith(Builds, {DefaultEnv}, QueueIds)

NextOrder ==
  \/ Filling /\ Advance(4 * REAPER_INTERVAL_MS)
  \/ Enqueue(QueueLimit(build), OrderAccounts, {"c1"}, {EMPTY}, {EMPTY})
  \/ ~Filling /\ Taken < MaxClaims /\ ClaimList("w1", {<<>>, <<"a">>, <<"b">>}, TwoListings(dir))
  \/ ClaimSort("w1")
  \/ ClaimRename("w1")
  \/ ClaimRead("w1")
  \/ SweepReaddir("w1")
  \/ SweepScan("w1")

SpecOrder == InitOrder /\ [][NextOrder]_vars

\* SpecTenant: Tasks of the accounts "a" and "a_", one claimer that claims
\* with either account, and the clock jumping past the threshold
TenantAccounts == {<<"a">>, <<"a", "_">>}

NextTenant ==
  \/ Expire
  \/ Enqueue(MaxTasks, TenantAccounts, {"c1"}, {EMPTY}, {EMPTY})
  \/ \E w \in {"w1"} : Claim(w, TenantAccounts)

SpecTenant == InitRace /\ [][NextTenant]_vars

\* SpecCrash: Tasks created at start-up, a claimer whose holders hang (no
\* done, requeue or heartbeat ever follows a claim) and that keeps calling
\* claim, the reaper on its interval, and the clock passing the threshold
\* once every Task is Leased. Fair: the clock, the reaper (its callback
\* fires again and again and runs on), and the claimer (it calls claim again
\* and again and each call runs on).
EnqueueAtStart ==
  /\ now = 0
  /\ Enqueue(MaxTasks, {<<"a">>}, {"c1"}, {EMPTY}, {EMPTY})

ExpireHeld ==
  /\ DOMAIN dir # {}
  /\ \A n \in DOMAIN dir : n.taking
  /\ Expire

NextCrash ==
  \/ EnqueueAtStart
  \/ ExpireHeld
  \/ Claim("w1", {<<"a">>})
  \/ Reaper

FairCrash ==
  /\ WF_vars(ExpireHeld)
  /\ WF_vars(Reaper)
  /\ WF_vars(Claim("w1", {<<"a">>}))

SpecCrash == InitRace /\ [][NextCrash]_vars /\ FairCrash

\* SpecProgress: finitely many Tasks, all created before the worker starts; a
\* worker that claims, calls done for the Task a claim returned and then
\* claims again; the reaper. Time passes while the Tasks wait in the queue,
\* never while a claim, a lease or a reaper pass is under way: the worker is
\* as quick as can be.
Working(w) == /\ resp.op = "claim" /\ resp.to = w /\ resp.status = 200 /\ resp.has

ClaimNext(w) == /\ ~Working(w) /\ Claim(w, {<<"a">>})

DoneNext(w) == /\ Working(w) /\ Done(w)

ExpireIdle ==
  /\ \A n \in DOMAIN dir : ~n.taking
  /\ \A w \in Workers : proc[w].pc = "idle"
  /\ reaper.pc = "idle"
  /\ Expire

EnqueueFirst == /\ resp.op \in {"none", "enqueue"} /\ EnqueueAtStart

NextProgress ==
  \/ EnqueueFirst
  \/ ExpireIdle
  \/ ClaimNext("w1")
  \/ DoneNext("w1")
  \/ Reaper

FairProgress ==
  /\ WF_vars(ClaimNext("w1"))
  /\ WF_vars(DoneNext("w1"))
  /\ WF_vars(Reaper)

SpecProgress == InitRace /\ [][NextProgress]_vars /\ FairProgress

\* ---- the API key ----------------------------------------------------------
TASK_KEY == "dev-task-key"

\* the key of a call: the configured one, another one, none
Keys == {TASK_KEY, "bad", EMPTY}

checkKey(key) == TASK_KEY # EMPTY /\ key = TASK_KEY

\* bad(res, 403, 'bad key')
Forbidden(op, w) ==
  /\ resp' = [op |-> op, to |-> w, status |-> 403]
  /\ UNCHANGED <<cfgVars, hookVars, book, now, dir, nextId, proc, reaper, lastCreate>>

\* if (!checkKey(req, res)) return; at the head of a route
Gated(op, w, key, handler) == IF checkKey(key) THEN handler ELSE Forbidden(op, w)

\* /tasks/enqueue has no checkKey: the key of the call is not looked at
RouteEnqueue(key) == Enqueue(1, {<<"a">>}, {"c1"}, {EMPTY}, {EMPTY})

RouteClaim(w, key) == Gated("claim", w, key, ClaimStart(w, {<<"a">>}))

RouteDone(w, key) == Gated("done", w, key, Done(w))

RouteRequeue(w, key) == Gated("requeue", w, key, Requeue(w))

RouteHeartbeat(w, key) == Gated("heartbeat", w, key, Heartbeat(w))

RouteDoneSafe(w, key) == Gated("doneSafe", w, key, DoneSafeRead(w))

\* a call of a queue-mutating route with the key
Call(key) ==
  \/ RouteEnqueue(key)
  \/ \E w \in Workers :
       \/ RouteClaim(w, key)
       \/ RouteDone(w, key)
       \/ RouteRequeue(w, key)
       \/ RouteHeartbeat(w, key)
       \/ RouteDoneSafe(w, key)

\* SpecKeys: one Task, two workers calling every route with every key, while
\* a confirming message arrives at the webhook
NextKeys ==
  \/ \E key \in Keys : Call(key)
  \/ Webhook(1, {<<"a">>}, ConfirmEvents)
  \/ \E w \in Workers :
       \/ ClaimSort(w)
       \/ ClaimRename(w)
       \/ ClaimRead(w)
       \/ SweepReaddir(w)
       \/ SweepScan(w)
       \/ DoneSafeScan(w)
       \/ DoneSafeUnlink(w)

SpecKeys == Init /\ [][NextKeys]_vars

\* SpecHookIO: every build under every environment, fed matching events with
\* and without credentials, with either write of the handler failing
AckEvents ==
  {Event("system", Candidate, f, "c1", 0, c[1], c[2]) : f \in {"job", EMPTY}, c \in Credentials}

NextHookIO == WebhookIO(MaxTasks, HookAccounts, AckEvents, IOs)

SpecHookIO == InitWebhook /\ [][NextHookIO]_vars

\* SpecHookLog: the webhook handler step by step (its awaits are where other
\* work could run): the request arrives, the dump is appended to the log
\* inside try/catch, the soft secret check answers 403 or lets the request
\* on, and the classification with createTask ends in ok(res). One request
\* is in flight at a time; either write may throw.
Dump(h) == [account |-> h.account] @@ h.ev

HookReceive(limit, accounts, events, ios) ==
  /\ hook.pc = "idle"
  /\ nextId <= limit
  /\ \E account \in accounts, ev \in events, io \in ios :
       hook' = [pc |-> "log", account |-> account, ev |-> ev, io |-> io]
  /\ UNCHANGED <<cfgVars, log, seenSystemToday, book, now, dir, nextId, proc, reaper,
                 resp, lastCreate>>

HookLog ==
  /\ hook.pc = "log"
  /\ log' = IF hook.io.log THEN appendLog(log, Dump(hook)) ELSE log
  /\ hook' = [hook EXCEPT !.pc = "secret"]
  /\ UNCHANGED <<cfgVars, seenSystemToday, book, now, dir, nextId, proc, reaper, resp,
                 lastCreate>>

HookSecret ==
  /\ hook.pc = "secret"
  /\ IF secretPass(env, hook.ev)
     THEN /\ hook' = [hook EXCEPT !.pc = "task"]
          /\ UNCHANGED resp
     ELSE /\ hook' = IdleHook
          /\ resp' = [op |-> "webhook", status |-> 403]
  /\ UNCHANGED <<cfgVars, log, seenSystemToday, book, now, dir, nextId, proc, reaper,
                 lastCreate>>

HookTask ==
  /\ hook.pc = "task"
  /\ LET key     == seenKey(hook.account, hook.ev.chat_id)
         wants   == wantsTask(build, hook.ev)
         dedup   == wants /\ deduped(build, env, hook.ev)
         allowed == wants /\ ~(dedup /\ key \in seenSystemToday)
         r       == createTask(dir, genId(nextId), now, hook.account, hook.ev.chat_id,
                               DEFAULT_REPLY, hook.ev.id)
         created == allowed /\ hook.io.write /\ r.ok
     IN /\ seenSystemToday' = IF dedup THEN seenSystemToday \cup {key} ELSE seenSystemToday
        /\ dir' = IF created THEN r.dir ELSE dir
        /\ nextId' = IF created THEN nextId + 1 ELSE nextId
  /\ hook' = IdleHook
  /\ resp' = [op |-> "webhook", status |-> 200]
  /\ UNCHANGED <<cfgVars, log, book, now, proc, reaper, lastCreate>>

LogEvents ==
  {Event("system", Candidate, EMPTY, "c1", 0, c, EMPTY) : c \in {EMPTY, "s3cret"}}

NextHookLog ==
  \/ HookReceive(MaxTasks, HookAccounts, LogEvents, IOs)
  \/ HookLog
  \/ HookSecret
  \/ HookTask

SpecHookLog == InitWebhook /\ [][NextHookLog]_vars

C2_TokenOwnsLease ==
  [][\A w \in Workers :
       (Done(w) \/ Requeue(w) \/ Heartbeat(w)) /\ dir' # dir
         => book[LockOf(w).id].owner = w]_vars

\* the step in which the sweep or the reaper renames a lock back
RevertStep == (ReaperRevert \/ \E w \in Workers : SweepRevert(w)) /\ dir' # dir

\* C3: lease expiry threshold. The sweep and the reaper revert no Leased
\* record whose time since last touch (now - mtime) is at most
\* visibility_timeout + heartbeat_grace, and a record they found older than
\* that is Available once their rename step is over.
C3_ExpiryThreshold ==
  [][/\ RevertStep => \A n \in DOMAIN dir \ DOMAIN dir' : now - dir[n].mtime > Threshold
     /\ (ReaperRevert => exists(dir', toJson(reaper.locks[reaper.i])))
     /\ \A w \in Workers : SweepRevert(w) => exists(dir', toJson(proc[w].files[proc[w].i]))]_vars

\* C4: the lease clock starts at the claim. A Task whose claim rename was at
\* time t is not reverted by the sweep or the reaper before
\* t + visibility_timeout + heartbeat_grace.
C4_ClockStartsAtClaim ==
  [][RevertStep => \A n \in DOMAIN dir \ DOMAIN dir' : now >= book[n.id].since + Threshold]_vars

\* C5: heartbeat keeps a lease alive. With the holder heartbeating every half
\* visibility timeout from its claim on, the lock it was given stays Leased
\* to it.
C5_HeartbeatKeepsLease ==
  \A w \in Workers :
    proc[w].held # <<>> => exists(dir, LockOf(w)) /\ book[LockOf(w).id].owner = w

\* C6: create/claim round trip. A claim issued right after a successful
\* create, with the account value the create was given and nothing else in
\* the queue, answers has:true with a Task whose chat_id, reply_text and
\* message_id are those of the Task create returned.
C6_CreateClaimRoundTrip ==
  (resp.op = "claim" /\ resp.status = 200) =>
    /\ resp.has
    /\ resp.task.chat_id = lastCreate.task.chat_id
    /\ resp.task.reply_text = lastCreate.task.reply_text
    /\ resp.task.message_id = lastCreate.task.message_id

\* C7 as stated: completion is final. Once done has been acknowledged for a
\* lock id that claim returned, no later claim returns that Task, whatever
\* the sweeps and reaper ticks did around the done call.
C7_DoneIsFinal ==
  \A id \in Ids :
    book[id].acked # "no" =>
      ~(resp.op = "claim" /\ resp.status = 200 /\ resp.has /\ resp.task.id = id)

\* C7 amended: when the Leased record is there as done runs its unlink, the
\* Task is Gone: no record of that id is in storage from then on and no
\* later claim returns it (with one Task, the claims that follow answer
\* has:false).
C7_DoneDeletesForGood ==
  \A id \in Ids :
    book[id].gone =>
      /\ \A n \in DOMAIN dir : n.id # id
      /\ ~(resp.op = "claim" /\ resp.status = 200 /\ resp.has /\ resp.task.id = id)

\* done deleted the record and a claim after it came back empty
C7_Witness ==
  \E id \in Ids :
    /\ book[id].gone
    /\ book[id].acked = "hit"
    /\ resp.op = "claim" /\ resp.status = 200 /\ ~resp.has

\* C8: doneSafe is gated on confirmation. Without a matching outbound record
\* for the lease's chat_id in the log, doneSafe answers 428 and leaves the
\* task storage as it is; with one, it goes on to delete the Leased record
\* and answers 204; and it reaches its delete only after a confirming record
\* was found.
C8_DoneSafeGated ==
  [][\A w \in Workers :
       /\ (DoneSafeRead(w) /\ chatOfLock(dir, LockOf(w)) = EMPTY)
            => resp'.op = "doneSafe" /\ resp'.status = 428 /\ dir' = dir
       /\ (DoneSafeScan(w) /\ ~confirmedInLogs(log, proc[w].chat))
            => resp'.op = "doneSafe" /\ resp'.to = w /\ resp'.status = 428 /\ dir' = dir
       /\ (DoneSafeScan(w) /\ confirmedInLogs(log, proc[w].chat))
            => proc'[w].pc = "ds_unlink" /\ dir' = dir
       /\ DoneSafeUnlink(w) => resp'.status = 204 /\ ~exists(dir', LockOf(w))
       /\ (proc[w].pc # "ds_unlink" /\ proc'[w].pc = "ds_unlink")
            => confirmedInLogs(log, proc[w].chat)]_vars

\* C9: done is idempotent. Every done call is acknowledged; on a lock id
\* whose record does not exist it changes nothing; and a second done with
\* the same lock id right after it is acknowledged too and leaves the task
\* storage as the first call left it.
C9_DoneIdempotent ==
  [][\A w \in Workers :
       Done(w) =>
         /\ resp'.op = "done" /\ resp'.status = 200
         /\ (~exists(dir, LockOf(w)) => dir' = dir)
         /\ doneTask(dir', LockOf(w)).ok
         /\ doneTask(dir', LockOf(w)).dir = dir']_vars

\* a worker called done a second time on the lock id its first done deleted
C9_Witness ==
  \E w \in Workers :
    /\ HasLock(w)
    /\ resp.op = "done" /\ resp.to = w /\ resp.status = 200
    /\ book[LockOf(w).id].gone
    /\ book[LockOf(w).id].acked = "miss"
    /\ ~exists(dir, LockOf(w))

\* C10: job-flow events bypass dedup. Every ingested event of type system
\* with flow_id "job" and a non-empty chat_id adds exactly one Available Task
\* for its chat, whatever the dedup markers and the dedup flag.
C10_JobFlowBypassesDedup ==
  [][\A account \in HookAccounts, ev \in HookEvents :
       (/\ Webhook(MaxTasks, {account}, {ev})
        /\ secretPass(env, ev)
        /\ isJobFlow(ev)
        /\ ev.chat_id # EMPTY)
         => \E n \in DOMAIN dir' \ DOMAIN dir :
              /\ DOMAIN dir' = DOMAIN dir \cup {n}
              /\ ~n.taking
              /\ JSONparse(dir'[n].text).chat_id = ev.chat_id]_vars

\* the Tasks in storage that events qualifying only through the text
\* pattern created for a pair: part_000 gives the job flow its own path, so
\* there they are the ones with a text event's message id; server.js knows
\* no other path than the text pattern
TextTasks(account, chat) ==
  {n \in DOMAIN dir :
     /\ n.acc = sanitize(account)
     /\ JSONparse(dir[n].text).chat_id = chat
     /\ (build = "part000" => JSONparse(dir[n].text).message_id = "m1")}

TextOnly(b, ev) == wantsTask(b, ev) /\ ~(b = "part000" /\ isJobFlow(ev))

\* C11: first-occurrence suppression. With the dedup flag enabled, the
\* events that qualify only through the text pattern create at most one Task
\* per (account, chat_id).
C11_FirstOccurrenceOnly ==
  env.ONLY_FIRST_SYSTEM =>
    \A account \in DedupAccounts, chat \in DedupChats :
      Cardinality(TextTasks(account, chat)) <= 1

\* two text-matched events of one pair were ingested in a row and one Task
\* for the pair is in storage
C11_Witness ==
  /\ env.ONLY_FIRST_SYSTEM
  /\ Len(log) = 2
  /\ log[1].account = log[2].account /\ log[1].chat_id = log[2].chat_id
  /\ TextOnly(build, log[1]) /\ TextOnly(build, log[2])
  /\ Cardinality(TextTasks(log[1].account, log[1].chat_id)) = 1

\* C12 as stated: the webhook always acknowledges. Every answer of the
\* handler is success, for every event, every configuration (a configured
\* secret the request does not satisfy included) and every internal failure.
C12_AlwaysAcknowledges == resp.op = "webhook" => resp.status = 200

\* C12, amended: a request that passes the soft secret check is acknowledged
\* with success whether or not the log append and the task write succeed; a
\* request that fails the check of a configured secret is answered 403 and
\* changes neither the task storage nor the dedup set.
C12_AcknowledgesUnlessForbidden ==
  [][\A account \in HookAccounts, ev \in AckEvents, io \in IOs :
       WebhookStep(MaxTasks, account, ev, io) =>
         IF secretPass(env, ev)
         THEN resp'.status = 200
         ELSE /\ resp'.status = 403
              /\ dir' = dir
              /\ seenSystemToday' = seenSystemToday]_vars

\* acknowledged although the dump was not logged and no task was written
C12_Witness ==
  /\ resp.op = "webhook"
  /\ resp.status = 200
  /\ seenSystemToday # {}
  /\ log = <<>>
  /\ DOMAIN dir = {}

\* C13: key gating. Every call of a queue-mutating route (enqueue, claim,
\* done, requeue, heartbeat, doneSafe) that does not carry the configured
\* API key is answered Forbidden and leaves the task storage unchanged.
C13_KeyGating ==
  [][\A key \in Keys :
       key # TASK_KEY /\ Call(key) => resp'.status = 403 /\ dir' = dir]_vars

\* C14: heartbeat(lockToken) answers NotFound and changes nothing when no
\* Leased record with that name exists (never claimed, already done,
\* requeued, or reclaimed and still Available); otherwise it answers success,
\* sets the record's last-touch time to now and changes neither the record's
\* content nor its name, nor any other record.
C14_HeartbeatTouchesOrNotFound ==
  [][\A w \in Workers, lock \in LockNames :
       HeartbeatLock(w, lock) =>
         IF lock \in DOMAIN dir
         THEN /\ resp'.status = 200
              /\ DOMAIN dir' = DOMAIN dir
              /\ dir'[lock].mtime = now
              /\ dir'[lock].text = dir[lock].text
              /\ \A n \in DOMAIN dir \ {lock} : dir'[n] = dir[n]
         ELSE /\ resp'.status = 404
              /\ dir' = dir]_vars

\* a heartbeat was answered NotFound while the record of its lock id is
\* Available again
C14_Witness ==
  \E w \in Workers :
    /\ resp.op = "heartbeat"
    /\ resp.to = w
    /\ resp.status = 404
    /\ HasLock(w)
    /\ toJson(LockOf(w)) \in DOMAIN dir

\* C15: a create with an empty or missing chat_id fails with InvalidArgument
\* (400) and writes no record; so in every reachable state every persisted
\* Task record, Available or Leased, created through enqueue or through the
\* webhook, has a non-empty chat_id.
C15_ChatIdRequired ==
  /\ [](\A n \in DOMAIN dir : JSONparse(dir[n].text).chat_id # EMPTY)
  /\ [][EnqueueNoChat => resp'.status = 400 /\ dir' = dir]_vars

\* an enqueue without chat_id was refused while a Task is Leased
C15_Witness ==
  /\ resp.op = "enqueue"
  /\ resp.status = 400
  /\ ~lastCreate.ok
  /\ \E n \in DOMAIN dir : n.taking

\* the last touch of a Leased record: its claim or its last heartbeat
LastTouch(n) == IF dir[n].mtime > book[n.id].since THEN dir[n].mtime ELSE book[n.id].since

RecordsOf(id) == {n \in DOMAIN dir : n.id = id}

\* C17: lifecycle exclusivity. In every reachable state, under every
\* interleaving of create, claim, done, doneSafe, requeue, heartbeat, sweep
\* and reaper steps, each Task id has at most one record in storage: never
\* an Available and a Leased record of the same id at once.
C17_OneRecordPerId == \A id \in Ids : Cardinality(RecordsOf(id)) <= 1

\* a worker still holds the lock id of a record that was reverted and is
\* Available, while the other worker is in the middle of a claim
C17_Witness ==
  \E w, v \in Workers :
    /\ HasLock(w)
    /\ RecordsOf(LockOf(w).id) = {toJson(LockOf(w))}
    /\ proc[v].pc = "c_rename"

\* the ids genId has handed out
Created(k, id) == \E i \in 1..(k - 1) : genId(i) = id

\* the lifecycle state of a Task id, read off the names in storage
LifeState(d, k, id) ==
  IF \E n \in DOMAIN d : n.id = id /\ n.taking THEN "Leased"
  ELSE IF \E n \in DOMAIN d : n.id = id THEN "Available"
  ELSE IF Created(k, id) THEN "Gone"
  ELSE "Unborn"

\* C18: only the listed lifecycle transitions occur. A step changes a Task's
\* state by Available->Leased (the rename of a claim), Leased->Gone (done,
\* doneSafe), Leased->Available (requeue, sweep, reaper) or, at its birth, to
\* Available (create), or leaves it unchanged; a Leased record that stays
\* Leased is changed by a heartbeat only. So an Available Task is never
\* deleted directly, and a Task that is Gone never becomes Available or
\* Leased again.
C18_ListedTransitionsOnly ==
  [][\A id \in Ids :
       LET a == LifeState(dir, nextId, id)
           b == LifeState(dir', nextId', id)
       IN /\ a # b =>
               \/ /\ a = "Unborn"
                  /\ b = "Available"
                  /\ resp'.op \in {"enqueue", "webhook"}
               \/ /\ a = "Available"
                  /\ b = "Leased"
                  /\ \E w \in Workers : ClaimRename(w)
               \/ /\ a = "Leased"
                  /\ b = "Gone"
                  /\ \E w \in Workers : Done(w) \/ DoneSafeUnlink(w)
               \/ /\ a = "Leased"
                  /\ b = "Available"
                  /\ ReaperRevert \/ \E w \in Workers : Requeue(w) \/ SweepRevert(w)
          /\ a = b =>
               \/ \A n \in RecordsOf(id) : n \in DOMAIN dir' /\ dir'[n] = dir[n]
               \/ /\ a = "Leased"
                  /\ \E w \in Workers : Heartbeat(w)]_vars

\* a done with the lock id of a record that had been reverted was answered
\* while that record is Available, and the record is still there
C18_Witness ==
  \E w \in Workers :
    /\ HasLock(w)
    /\ resp.op = "done"
    /\ resp.to = w
    /\ LifeState(dir, nextId, LockOf(w).id) = "Available"

\* C19: a claim that loses a race never fails. Whenever another claimer takes
\* a candidate between this claim's directory listing and its rename (the
\* modification-time lookup of the sort included), the claim goes on to the
\* next candidate and ends with an answer, a Task or empty: no claim ends
\* with an error or without an answer.
C19_LosingClaimNeverFails == resp.op = "claim" => resp.status = 200

Range(s) == {s[i] : i \in DOMAIN s}

\* the names the account filter lets through
MatchesFilter(n, account) == account = <<>> \/ startsWith(NameStr(n), account \o SEP)

\* C20: claim order. With no concurrent claimer, a claim takes from the
\* listed records that match the account filter the K of greatest
\* modification time (K = 3 in server.js, 7 in part_000; all of them when
\* fewer match), in descending modification-time order, attempts the rename
\* on no other record, and returns the first of them: the Available record
\* of greatest modification time among those matching the filter.
C20_ClaimOrder ==
  [][\A w \in {"w1"} :
       LET K == IF build = "server" THEN 3 ELSE 7
       IN /\ ClaimSort(w) =>
               LET match == {n \in Range(proc[w].files) : MatchesFilter(n, proc[w].account)}
                   cand  == IF proc'[w].pc = "c_rename" THEN proc'[w].files ELSE <<>>
               IN /\ Len(cand) = (IF Cardinality(match) < K THEN Cardinality(match) ELSE K)
                  /\ Range(cand) \subseteq match
                  /\ Cardinality(Range(cand)) = Len(cand)
                  /\ \A i, j \in DOMAIN cand : i < j => dir[cand[i]].mtime >= dir[cand[j]].mtime
                  /\ \A n \in match \ Range(cand), i \in DOMAIN cand :
                       dir[cand[i]].mtime >= dir[n].mtime
          /\ ClaimRename(w) => proc[w].i <= K
          /\ (ClaimRead(w) /\ resp' # resp) =>
               /\ resp'.has
               /\ proc[w].i = 1
               /\ \A n \in DOMAIN dir :
                    ~n.taking /\ MatchesFilter(n, proc[w].account)
                      => dir[n].mtime <= dir[resp'.lockId].mtime]_vars

\* part_000 has sorted a listing with more than seven matching records and
\* is about to rename the first of its seven candidates
C20_Witness ==
  /\ build = "part000"
  /\ proc["w1"].pc = "c_rename"
  /\ Len(proc["w1"].files) = 7
  /\ Cardinality({n \in DOMAIN dir : ~n.taking /\ MatchesFilter(n, proc["w1"].account)}) > 7
  /\ \E n \in DOMAIN dir : dir[n].mtime # dir[proc["w1"].files[1]].mtime

\* C21: tenant isolation of claim. A claim called with a non-empty account
\* returns only a Task whose stored account field is that account, and its
\* sweep reverts only leases of Tasks of that account, for every pair of
\* accounts create accepts (accounts with underscores included).
C21_TenantIsolation ==
  [][\A w \in Workers :
       /\ (ClaimRead(w) /\ resp' # resp /\ proc[w].account # <<>>)
            => resp'.Account = proc[w].account
       /\ (SweepRevert(w) /\ dir' # dir /\ proc[w].account # <<>>)
            => \A n \in DOMAIN dir \ DOMAIN dir' :
                 JSONparse(dir[n].text).account = proc[w].account]_vars

Leased(id) == \E n \in DOMAIN dir : n.id = id /\ n.taking

Avail(id) == \E n \in DOMAIN dir : n.id = id /\ ~n.taking

\* C22 as stated: crash recovery. Under fair reaper ticks and advancing
\* time, every Leased Task whose holder never again calls done, requeue or
\* heartbeat eventually becomes Available again, and, claimers calling claim
\* again and again and no newer Tasks arriving, is then returned by a later
\* claim.
C22_CrashRecovery ==
  \A id \in Ids :
    /\ Leased(id) ~> Avail(id)
    /\ (Avail(id) /\ now > 0) ~> (book[id].returned # {})

\* the first half of C22 alone: every lease left alone by its holder comes
\* back to Available
C22_LeaseComesBack == \A id \in Ids : Leased(id) ~> Avail(id)

\* C23: requeue. A requeue with the lock id of a Leased record is
\* acknowledged and turns it into the Available record of the same Task:
\* same content, the name a claim of the Task's account (or of no account)
\* lists, every other record untouched. A requeue with a lock id whose Leased
\* record does not exist is acknowledged as well and leaves the storage
\* unchanged.
C23_Requeue ==
  [][\A w \in Workers :
       Requeue(w) =>
         LET lock == LockOf(w)
         IN /\ resp'.status = 200
            /\ IF exists(dir, lock)
               THEN /\ DOMAIN dir' = (DOMAIN dir \ {lock}) \cup {toJson(lock)}
                    /\ dir'[toJson(lock)].text = dir[lock].text
                    /\ \A n \in DOMAIN dir \ {lock} : dir'[n] = dir[n]
                    /\ \A account \in {<<>>, JSONparse(dir[lock].text).account} :
                         MatchesFilter(toJson(lock), account)
               ELSE dir' = dir]_vars

\* before any lease can have gone stale, a requeue was acknowledged and the
\* record of the lock id its caller holds is Available
C23_Witness ==
  \E w \in Workers :
    /\ now = 0
    /\ HasLock(w)
    /\ resp.op = "requeue"
    /\ resp.to = w
    /\ exists(dir, toJson(LockOf(w)))

\* C24: the dedup marker records a produced Task. Whenever the marker of
\* (account, chat_id) is set, the event that set it created a Task for that
\* pair: a text-matched event whose task creation fails leaves no marker.
\* (No record leaves the storage under SpecDedup.)
C24_MarkerMeansTask ==
  \A account \in DedupAccounts, chat \in DedupChats :
    seenKey(account, chat) \in seenSystemToday =>
      \E n \in DOMAIN dir :
        /\ n.acc = sanitize(account)
        /\ JSONparse(dir[n].text).chat_id = chat

\* C25 as stated: log before processing. For every inbound webhook event the
\* raw event is in the activity log before the secret check, the
\* classification and any Task creation for it: no Task is created for an
\* event whose raw log entry was not written first.
C25_LogBeforeProcessing ==
  [][(HookSecret \/ HookTask) =>
       /\ log # <<>>
       /\ log[Len(log)] = Dump(hook)]_vars

\* C25, amended: the append of the raw event to the activity log is the
\* first thing the handler does with it; unless that append fails, the entry
\* is in the log before the secret check, the classification and any Task
\* creation for the event, none of which writes the log's dumps.
C25_LogAttemptFirst ==
  [][(HookSecret \/ HookTask) =>
       /\ log' = log
       /\ hook.io.log => (log # <<>> /\ log[Len(log)] = Dump(hook))]_vars

\* a request with the wrong secret was logged and is about to be refused
C25_Witness ==
  /\ hook.pc = "secret"
  /\ ~secretPass(env, hook.ev)
  /\ hook.io.log
  /\ log # <<>>
  /\ log[Len(log)] = Dump(hook)
  /\ DOMAIN dir = {}

\* C26: Task immutability. The stored fields of a Task (id, account,
\* chat_id, reply_text, message_id, created_at) and the account in its file
\* name are the same in every record of it from creation until it is Gone:
\* claim, heartbeat, requeue, sweep, reaper and doneSafe change a record's
\* lifecycle state or its modification time only, and a doneSafe that is
\* not confirmed changes nothing.
C26_TaskImmutable ==
  [][/\ \A n \in DOMAIN dir, m \in DOMAIN dir' :
          n.id = m.id => m.acc = n.acc /\ dir'[m].text = dir[n].text
     /\ \A w \in Workers : DoneSafeRead(w) \/ DoneSafeScan(w) => dir' = dir]_vars

\* a record created at time 0 that was leased, has gone stale and was
\* heartbeated after that still carries the Task written at its creation
C26_Witness ==
  /\ resp.op = "heartbeat"
  /\ resp.status = 200
  /\ \E n \in DOMAIN dir :
       /\ n.taking
       /\ now > 0
       /\ dir[n].mtime = now
       /\ dir[n].text = JSONstringify(lastCreate.task)

\* C27: eventual forward progress. With finitely many Tasks created, a
\* worker that keeps claiming and completes every Task a claim returns with
\* done, and fair scheduling of the worker and the reaper, every created
\* Task is eventually Gone.
C27_EventuallyGone ==
  \A id \in Ids : (RecordsOf(id) # {}) ~> (LifeState(dir, nextId, id) = "Gone")
====
